---- MODULE Spec2Model ----
(***************************************************************************)
(* Confocal-LUV: five independent data-reduction and plotting scripts.     *)
(* Each script is a straight-line program, so each gets its own            *)
(* specification over its own group of variables; the variables of the     *)
(* other scripts stay parked at their idle values.                         *)
(*                                                                         *)
(*   SpecCount  Raw_Data_Threshold_xlsx_Export.py  the counting loop       *)
(*   SpecLoad   the batch loaders load_files / load_files_A                *)
(*   SpecHill   Raw_Data_Plot_Hill_Fit.py          hill_equation           *)
(*   SpecExport Raw_Data_Threshold_xlsx_Export.py  get_unique_filename     *)
(*   SpecPlot   Raw_Data_Plot.py                   get_next_filename       *)
(*   SpecHist   Raw_Data_Histogram_Plot.py         plot_histogram filter   *)
(*   SpecFit    Raw_Data_Plot_Hill_Fit.py          positivity filter       *)
(*   SpecTable  Raw_Data_Threshold_xlsx_Export.py  the exported table      *)
(***************************************************************************)
EXTENDS Integers, Sequences, FiniteSets, TLC

VARIABLES
    \* Raw_Data_Threshold_xlsx_Export.py, lines 86-91 (one run of the outer loop)
    channelA_arr,      \* the array load_files returned for the run
    threshold_idx,     \* position of the inner loop in thresholds
    events,            \* the last count computed (line 89)
    events_row,        \* what the run has appended to events_dict, in threshold order
    \* the batch loaders: load_files (export script), load_files_A (plot, histogram)
    script,            \* which script's loader runs: "export", "plot" or "hist"
    number_of_files,   \* how many files the sequence has
    disk,              \* the data files that exist: file name -> rows of (A, B) values
    load_i,            \* the loop variable i
    channelA_data,     \* the list the loop appends column A to
    channelB_data,     \* the list the loop appends column B to (load_files only)
    printed,           \* what the loader has printed, in order
    load_pc,           \* "loop", "returned", or "raised" (FileNotFoundError)
    loaded_arr,        \* the channel A array the loader returned
    \* Raw_Data_Plot_Hill_Fit.py: one call of hill_equation
    hill_x,            \* the argument x
    hill_Vmax,         \* the asymptote
    hill_Kd,           \* the midpoint
    hill_n,            \* the slope
    hill_y,            \* the value returned
    hill_pc,           \* "call" before the call, "done" after it
    \* the output file of a run: the export script's workbook, the plot script's SVG
    files,             \* the names of the files that exist
    output_path,       \* the name the run chose (excel_output_path, filename)
    save_pc,           \* "start" before the name is chosen, "chosen" until the file is written
    written,           \* the files the runs have written, in order
    clobbered,         \* the files that existed when a run wrote them
    \* Raw_Data_Histogram_Plot.py: one call of plot_histogram
    hist_data,         \* the argument data
    bottom_threshold,  \* None, or <<v>> for the value v
    top_threshold,     \* None, or <<v>> for the value v
    hist_plotted,      \* the data handed to plt.hist
    hist_pc,           \* "call" before the call, "done" after it
    \* Raw_Data_Plot_Hill_Fit.py: the positivity filter
    fit_df,            \* the rows of the spreadsheet, each <<Conc, Mean, SD>>
    fit_x,             \* the Series x, y and y_sd: index label and value of each entry
    fit_y,
    fit_y_sd,
    fit_min,           \* min(x), once line 44 has computed it
    fit_pc,            \* "read", "filtered", then "printed" or "raised" (ValueError)
    \* Raw_Data_Threshold_xlsx_Export.py: the table, lines 80-104
    expnum,            \* the number of runs (line 22)
    run_number_of_files, \* number_of_files (line 25)
    run_disk,          \* the data files that exist: file name -> rows of (A, B) values
    file_stem_idx,     \* position of the outer loop in file_stems
    run_channelA_arr,  \* channelA_arr of the run last loaded (line 87)
    events_dict,       \* threshold -> the counts appended so far, one per run
    export_data,       \* the dict data of columns (lines 94-102)
    export_df,         \* the rows of the DataFrame df (line 104)
    table_pc           \* "loop", then "framed" or "raised" (ValueError)

varsCount == <<channelA_arr, threshold_idx, events, events_row>>
varsLoad == <<script, number_of_files, disk, load_i, channelA_data, channelB_data,
              printed, load_pc, loaded_arr>>
varsHill == <<hill_x, hill_Vmax, hill_Kd, hill_n, hill_y, hill_pc>>
varsSave == <<files, output_path, save_pc, written, clobbered>>
varsHist == <<hist_data, bottom_threshold, top_threshold, hist_plotted, hist_pc>>
varsFit == <<fit_df, fit_x, fit_y, fit_y_sd, fit_min, fit_pc>>
varsTable == <<expnum, run_number_of_files, run_disk, file_stem_idx, run_channelA_arr,
               events_dict, export_data, export_df, table_pc>>

vars == <<varsCount, varsLoad, varsHill, varsSave, varsHist, varsFit, varsTable>>

\* what the actions of one script leave alone: the other scripts' variables
othersCount == <<varsLoad, varsHill, varsSave, varsHist, varsFit, varsTable>>
othersLoad == <<varsCount, varsHill, varsSave, varsHist, varsFit, varsTable>>
othersHill == <<varsCount, varsLoad, varsSave, varsHist, varsFit, varsTable>>
othersSave == <<varsCount, varsLoad, varsHill, varsHist, varsFit, varsTable>>
othersHist == <<varsCount, varsLoad, varsHill, varsSave, varsFit, varsTable>>
othersFit == <<varsCount, varsLoad, varsHill, varsSave, varsHist, varsTable>>
othersTable == <<varsCount, varsLoad, varsHill, varsSave, varsHist, varsFit>>

(***************************************************************************)
(* Bounds of the model.                                                    *)
(***************************************************************************)
MaxLen == 2            \* longest data array drawn
MaxFiles == 3          \* largest number_of_files drawn
Prec == 7              \* bits of a float's significand (53 in Python)
MaxNum == 6            \* largest hill_equation argument, in halves
MaxSlope == 2          \* largest |n| passed to hill_equation
MaxK == 5              \* finest closeness 1/k asked of the Hill curve
MaxVer == 4            \* highest version of an output file present at the start
MaxRuns == 3           \* runs of a script in a row
MaxRows == 3           \* most rows of the spreadsheet
MaxExp == 2            \* largest expnum drawn
MaxRunFiles == 2       \* largest number_of_files drawn where several runs are loaded

\* Sequences over S of length at most n.
SeqUpTo(S, n) == UNION {[1..k -> S] : k \in 0..n}

(***************************************************************************)
(* Raw_Data_Threshold_xlsx_Export.py: threshold counting.                  *)
(***************************************************************************)
\* line 23
thresholds == <<20, 30, 40, 50, 60, 70, 80, 90, 100, 150, 160, 170, 180, 190, 200>>

\* Intensities a data file may hold: values below, on and above thresholds.
Intensities == {0, 20, 21, 30, 100, 199, 200, 201}

\* thresholds a caller other than the loop may pass
ProbeThresholds == {-1, 0, 19, 20, 21, 30, 100, 200, 201, 500}

\* np.sum over a boolean array: the number of True entries
RECURSIVE np_sum(_)
np_sum(mask) ==
    IF mask = <<>> THEN 0
    ELSE (IF Head(mask) THEN 1 ELSE 0) + np_sum(Tail(mask))

\* count_events_above_threshold with the comparison slipped: >= and <
count_events_at_or_above(arr, threshold) ==
    np_sum([i \in DOMAIN arr |-> arr[i] >= threshold])

count_events_below(arr, threshold) ==
    np_sum([i \in DOMAIN arr |-> arr[i] < threshold])

\* lines 74-78: np.sum(channelA_arr > threshold)
count_events_above_threshold(arr, threshold) ==
    np_sum([i \in DOMAIN arr |-> arr[i] > threshold])

ParkCount ==
    /\ channelA_arr = <<>>
    /\ threshold_idx = 0
    /\ events = 0
    /\ events_row = <<>>

\* line 87: the array of the run, whatever the files held
InitCountOwn ==
    /\ channelA_arr \in SeqUpTo(Intensities, MaxLen)
    /\ threshold_idx = 1
    /\ events = 0
    /\ events_row = <<>>

\* lines 88-90: one pass of the inner loop
CountStep ==
    /\ threshold_idx >= 1
    /\ threshold_idx <= Len(thresholds)
    /\ events' = count_events_above_threshold(channelA_arr, thresholds[threshold_idx])
    /\ events_row' = Append(events_row, events')
    /\ threshold_idx' = threshold_idx + 1
    /\ UNCHANGED channelA_arr
    /\ UNCHANGED othersCount

\* the elements of arr strictly above t, counted without the code's mask
NumAbove(arr, t) == Cardinality({i \in DOMAIN arr : arr[i] > t})

\* C1: the count is the number of elements strictly greater than the
\* threshold; elements equal to it are not counted; the count is 0 for an
\* empty array and for an array with no element above the threshold.
C1_CountIsNumberAbove ==
    /\ \A j \in DOMAIN events_row : events_row[j] = NumAbove(channelA_arr, thresholds[j])
    /\ \A t \in ProbeThresholds :
        /\ count_events_above_threshold(channelA_arr, t) = NumAbove(channelA_arr, t)
        /\ (\A i \in DOMAIN channelA_arr : channelA_arr[i] <= t)
              => count_events_above_threshold(channelA_arr, t) = 0
    /\ channelA_arr = <<>> => \A j \in DOMAIN events_row : events_row[j] = 0

\* C1 witness: an array with an element equal to a threshold and one above
\* it has been counted at that threshold, and only the one above counted.
C1_Witness ==
    /\ Len(events_row) >= 1
    /\ \E i, k \in DOMAIN channelA_arr :
          channelA_arr[i] = thresholds[1] /\ channelA_arr[k] > thresholds[1]
    /\ events_row[1] = 1

\* C2: the count never rises when the threshold rises, so the entries a run
\* contributes to the 'Events above <threshold>' columns are non-increasing
\* in column order.
C2_CountMonotone ==
    /\ \A t1, t2 \in ProbeThresholds :
          t1 <= t2 => count_events_above_threshold(channelA_arr, t1)
                        >= count_events_above_threshold(channelA_arr, t2)
    /\ \A j, k \in DOMAIN events_row : j <= k => events_row[j] >= events_row[k]
    /\ \A j, k \in DOMAIN thresholds : j < k => thresholds[j] < thresholds[k]

\* C2 witness: a finished run whose count strictly drops along the columns.
C2_Witness ==
    /\ Len(events_row) = Len(thresholds)
    /\ events_row[1] > events_row[Len(thresholds)]

(***************************************************************************)
(* The batch loaders.  load_files is Raw_Data_Threshold_xlsx_Export.py     *)
(* lines 50-72; load_files_A is Raw_Data_Plot.py lines 29-48 and, with     *)
(* the same text, Raw_Data_Histogram_Plot.py lines 27-46.                  *)
(***************************************************************************)
Scripts == {"export", "plot", "hist"}

\* path_A of each script
path_A(s) ==
    CASE s = "export" -> "U:\\SCE\\CHEM\\Research Groups\\Cockroft\\Dan\\_PDRA\\01_Data\\_Confocal\\20250226"
      [] s = "plot" -> "FILESTEMLOCATION"
      [] s = "hist" -> "FILELOCATION"

\* the stem of the files loaded: the first of file_stems, or file_stem_A
file_stem(s) == IF s = "export" THEN "769_01" ELSE "FILENAME"

\* format specification :02d
Pad2(k) == IF k < 10 THEN "0" \o ToString(k) ELSE ToString(k)

os_path_join(dir, name) == dir \o "\\" \o name

\* the name of the i-th file of the sequence: the bare stem for the first,
\* stem_02, stem_03, ... after it
data_filename(s, i) ==
    os_path_join(path_A(s), IF i > 0 THEN file_stem(s) \o "_" \o Pad2(i + 1) ELSE file_stem(s))

\* what a data file may hold: rows of (channel A, channel B)
FileContents == {<<>>, <<<<21, 7>>>>, <<<<16777217, 3>>, <<5, 4>>>>}

\* the names a run may look for
DataNames(s) == {data_filename(s, i) : i \in 0..(MaxFiles - 1)}

\* np.float32 of an integer value: exact up to 2^24, then the nearest
\* multiple of 2 (ties to the even mantissa), as far as 2^25
float32(v) ==
    IF v <= 16777216 /\ v >= -16777216 THEN v
    ELSE IF v % 2 = 0 THEN v
    ELSE IF ((v - 1) \div 2) % 2 = 0 THEN v - 1 ELSE v + 1

\* np.asarray(list, dtype=np.float32)
np_asarray_float32(list) == [k \in DOMAIN list |-> float32(list[k])]

column(rows, c) == [k \in DOMAIN rows |-> rows[k][c]]

ParkLoad ==
    /\ script = "export"
    /\ number_of_files = 0
    /\ disk = <<>>
    /\ load_i = 0
    /\ channelA_data = <<>>
    /\ channelB_data = <<>>
    /\ printed = <<>>
    /\ load_pc = "parked"
    /\ loaded_arr = <<>>

InitLoadOwn ==
    /\ script \in Scripts
    /\ number_of_files \in 1..MaxFiles
    /\ disk \in UNION {[S -> FileContents] : S \in SUBSET DataNames(script)}
    /\ load_i = 0
    /\ channelA_data = <<>>
    /\ channelB_data = <<>>
    /\ printed = <<>>
    /\ load_pc = "loop"
    /\ loaded_arr = <<>>

\* load_files, lines 60-62: the file is missing, say so and go on
LoadFilesSkip ==
    /\ load_pc = "loop" /\ script = "export" /\ load_i < number_of_files
    /\ data_filename(script, load_i) \notin DOMAIN disk
    /\ printed' = Append(printed, "File does not exist: " \o data_filename(script, load_i))
    /\ load_i' = load_i + 1
    /\ UNCHANGED <<script, number_of_files, disk, channelA_data, channelB_data,
                   load_pc, loaded_arr>>
    /\ UNCHANGED othersLoad

\* load_files, lines 64-68: read both columns of every row
LoadFilesRead ==
    /\ load_pc = "loop" /\ script = "export" /\ load_i < number_of_files
    /\ data_filename(script, load_i) \in DOMAIN disk
    /\ channelA_data' = channelA_data \o column(disk[data_filename(script, load_i)], 1)
    /\ channelB_data' = channelB_data \o column(disk[data_filename(script, load_i)], 2)
    /\ load_i' = load_i + 1
    /\ UNCHANGED <<script, number_of_files, disk, printed, load_pc, loaded_arr>>
    /\ UNCHANGED othersLoad

\* load_files_A, lines 38-45: open the file, read column A, report the rows
LoadFilesARead ==
    /\ load_pc = "loop" /\ script \in {"plot", "hist"} /\ load_i < number_of_files
    /\ data_filename(script, load_i) \in DOMAIN disk
    /\ channelA_data' = channelA_data \o column(disk[data_filename(script, load_i)], 1)
    /\ printed' = Append(printed,
          "Loaded " \o data_filename(script, load_i) \o ", which contains "
          \o ToString(Len(disk[data_filename(script, load_i)])) \o " rows.")
    /\ load_i' = load_i + 1
    /\ UNCHANGED <<script, number_of_files, disk, channelB_data, load_pc, loaded_arr>>
    /\ UNCHANGED othersLoad

\* load_files_A, line 39: open() of a missing file raises FileNotFoundError,
\* which nothing catches: the script ends there
LoadFilesARaise ==
    /\ load_pc = "loop" /\ script \in {"plot", "hist"} /\ load_i < number_of_files
    /\ data_filename(script, load_i) \notin DOMAIN disk
    /\ load_pc' = "raised"
    /\ UNCHANGED <<script, number_of_files, disk, load_i, channelA_data, channelB_data,
                   printed, loaded_arr>>
    /\ UNCHANGED othersLoad

\* the end of the loop: convert and return (lines 70-72, lines 47-48)
LoadReturn ==
    /\ load_pc = "loop" /\ load_i = number_of_files
    /\ loaded_arr' = np_asarray_float32(channelA_data)
    /\ load_pc' = "returned"
    /\ UNCHANGED <<script, number_of_files, disk, load_i, channelA_data, channelB_data,
                   printed>>
    /\ UNCHANGED othersLoad

\* column A of the files of the sequence that exist, in sequence order
RECURSIVE ExistingColumnA(_, _, _)
ExistingColumnA(s, d, n) ==
    IF n = 0 THEN <<>>
    ELSE ExistingColumnA(s, d, n - 1)
         \o (IF data_filename(s, n - 1) \in DOMAIN d
             THEN column(d[data_filename(s, n - 1)], 1) ELSE <<>>)

MissingIndexes == {i \in 0..(number_of_files - 1) : data_filename(script, i) \notin DOMAIN disk}

\* a loader that has ended has returned the existing files' data, and has
\* printed a message naming every missing file
LoadedDespiteMissing ==
    load_pc \in {"returned", "raised"} =>
        /\ load_pc = "returned"
        /\ \A k \in DOMAIN loaded_arr :
              loaded_arr[k] = float32(ExistingColumnA(script, disk, number_of_files)[k])
        /\ Len(loaded_arr) = Len(ExistingColumnA(script, disk, number_of_files))
        /\ \A i \in MissingIndexes :
              \E m \in DOMAIN printed :
                  printed[m] = "File does not exist: " \o data_filename(script, i)

\* C3: in every script's batch loader a missing file is reported and
\* skipped, the rest of the sequence is loaded in order, and the loader
\* returns the array built from the files that exist.
C3_MissingFileSkipped == LoadedDespiteMissing

\* what holds of the code: load_files alone skips
C3_LoadFilesSkips == script = "export" => LoadedDespiteMissing

\* load_files_A never gets past a missing file
C3_LoadFilesAStops ==
    (script \in {"plot", "hist"} /\ load_pc = "returned") => MissingIndexes = {}

(***************************************************************************)
(* Raw_Data_Plot_Hill_Fit.py: hill_equation, lines 46-48.                  *)
(* A float is <<m, e>>, the number m * 2^e with m odd (or <<0, 0>> for 0)  *)
(* and |m| < 2^Prec: binary floating point with a significand of Prec bits *)
(* (53 in Python), every operation rounded to nearest, ties to even.  The  *)
(* exponent is not bounded.  What is no number (a quotient with a zero     *)
(* divisor, 0 raised to a negative power: ZeroDivisionError for Python     *)
(* scalars, nan for numpy arrays) is NaN, and every operation on NaN is    *)
(* NaN.  The slope is an integer.                                          *)
(***************************************************************************)
NaN == <<>>
IsNum(r) == r # <<>>

Abs(a) == IF a < 0 THEN -a ELSE a
Sign(a) == IF a < 0 THEN -1 ELSE 1

RECURSIVE Pow2(_)
Pow2(k) == IF k <= 0 THEN 1 ELSE 2 * Pow2(k - 1)

RECURSIVE IntPow(_, _)
IntPow(a, k) == IF k <= 0 THEN 1 ELSE a * IntPow(a, k - 1)

\* the number of bits of a >= 0
RECURSIVE BitLen(_)
BitLen(a) == IF a = 0 THEN 0 ELSE 1 + BitLen(a \div 2)

\* m * 2^e with the factors of 2 moved from m to e
RECURSIVE Canon(_, _)
Canon(m, e) ==
    IF m = 0 THEN <<0, 0>>
    ELSE IF m % 2 = 0 THEN Canon(m \div 2, e + 1)
    ELSE <<m, e>>

\* the float nearest to m * 2^e, ties to the even significand
RoundToPrec(m, e) ==
    LET a == Abs(m)
        d == BitLen(a) - Prec
    IN  IF d <= 0 THEN Canon(m, e)
        ELSE LET q == a \div Pow2(d)
                 r == a % Pow2(d)
                 half == Pow2(d - 1)
                 up == r > half \/ (r = half /\ q % 2 = 1)
             IN Canon(Sign(m) * (IF up THEN q + 1 ELSE q), e + d)

\* the float nearest to (m1 * 2^e1) / (m2 * 2^e2), m2 # 0: the quotient to
\* Prec + 2 bits and a sticky bit for the remainder, then rounded
DivRound(m1, e1, m2, e2) ==
    IF m1 = 0 THEN <<0, 0>>
    ELSE LET s == Prec + 2 + BitLen(Abs(m2))
             num == Abs(m1) * Pow2(s)
             q == num \div Abs(m2)
             sticky == IF num % Abs(m2) = 0 THEN 0 ELSE 1
         IN RoundToPrec(Sign(m1) * Sign(m2) * (2 * q + sticky), e1 - e2 - s - 1)

\* the exponent just above the leading bit of a float other than 0
TopExp(a) == a[2] + BitLen(Abs(a[1]))

\* a * b
float_mul(a, b) ==
    IF ~IsNum(a) \/ ~IsNum(b) THEN NaN ELSE RoundToPrec(a[1] * b[1], a[2] + b[2])

\* a + b: a term too small to reach the rounding bit of the other is lost
float_add(a, b) ==
    IF ~IsNum(a) \/ ~IsNum(b) THEN NaN
    ELSE IF a[1] = 0 THEN b
    ELSE IF b[1] = 0 THEN a
    ELSE IF TopExp(a) - TopExp(b) > Prec + 2 THEN a
    ELSE IF TopExp(b) - TopExp(a) > Prec + 2 THEN b
    ELSE LET e0 == IF a[2] < b[2] THEN a[2] ELSE b[2]
         IN RoundToPrec(a[1] * Pow2(a[2] - e0) + b[1] * Pow2(b[2] - e0), e0)

\* a / b: division by zero is no number
float_div(a, b) ==
    IF ~IsNum(a) \/ ~IsNum(b) THEN NaN
    ELSE IF b[1] = 0 THEN NaN
    ELSE DivRound(a[1], a[2], b[1], b[2])

\* a ** k for an integer k: a ** 0 is 1 (0 ** 0 too), 0 ** k is no number
\* for k < 0, and the power is rounded once (the C library's pow is within
\* one unit in the last place of that)
float_pow(a, k) ==
    IF k = 0 THEN <<1, 0>>
    ELSE IF ~IsNum(a) THEN NaN
    ELSE IF k > 0 THEN RoundToPrec(IntPow(a[1], k), a[2] * k)
    ELSE IF a[1] = 0 THEN NaN
    ELSE DivRound(1, 0, IntPow(a[1], -k), a[2] * (-k))

\* hill_equation with a slip: the midpoint not raised to the slope, and the
\* inhibition form of the curve
hill_equation_plain_Kd(x, Vmax, Kd, n) ==
    float_div(float_mul(Vmax, float_pow(x, n)), float_add(Kd, float_pow(x, n)))

hill_equation_inhibition(x, Vmax, Kd, n) ==
    float_div(float_mul(Vmax, float_pow(Kd, n)),
              float_add(float_pow(Kd, n), float_pow(x, n)))

\* lines 47-48: (Vmax * x**n) / (Kd**n + x**n)
hill_equation(x, Vmax, Kd, n) ==
    float_div(float_mul(Vmax, float_pow(x, n)),
              float_add(float_pow(Kd, n), float_pow(x, n)))

\* the arguments drawn: halves and wholes of either sign, 0 among them
HillArgs == {Canon(a, -1) : a \in (-MaxNum)..MaxNum}
HillSlopes == (-MaxSlope)..MaxSlope

ParkHill ==
    /\ hill_x = <<0, 0>>
    /\ hill_Vmax = <<0, 0>>
    /\ hill_Kd = <<0, 0>>
    /\ hill_n = 0
    /\ hill_y = NaN
    /\ hill_pc = "parked"

InitHillOwn ==
    /\ hill_x \in HillArgs
    /\ hill_Vmax \in HillArgs
    /\ hill_Kd \in HillArgs
    /\ hill_n \in HillSlopes
    /\ hill_y = NaN
    /\ hill_pc = "call"

\* a call of hill_equation (as on line 57)
HillCall ==
    /\ hill_pc = "call"
    /\ hill_y' = hill_equation(hill_x, hill_Vmax, hill_Kd, hill_n)
    /\ hill_pc' = "done"
    /\ UNCHANGED <<hill_x, hill_Vmax, hill_Kd, hill_n>>
    /\ UNCHANGED othersHill

\* exact arithmetic on floats, for stating what a float is close to
NumAbs(a) == <<Abs(a[1]), a[2]>>
TimesPow2(a, k) == IF a[1] = 0 THEN a ELSE <<a[1], a[2] + k>>
Whole(k) == Canon(k, 0)

\* |a - b|, exactly (not rounded)
AbsDiff(a, b) ==
    LET e0 == IF a[2] < b[2] THEN a[2] ELSE b[2]
    IN Canon(Abs(a[1] * Pow2(a[2] - e0) - b[1] * Pow2(b[2] - e0)), e0)

\* ca * a <= cb * b, exactly, for a, b >= 0 and whole factors ca, cb > 0
LeScaled(a, ca, b, cb) ==
    IF a[1] = 0 THEN TRUE
    ELSE IF b[1] = 0 THEN FALSE
    ELSE LET ta == TopExp(a) + BitLen(ca)
             tb == TopExp(b) + BitLen(cb)
             e0 == IF a[2] < b[2] THEN a[2] ELSE b[2]
         IN  IF ta <= tb - 2 THEN TRUE
             ELSE IF ta - 2 >= tb THEN FALSE
             ELSE ca * a[1] * Pow2(a[2] - e0) <= cb * b[1] * Pow2(b[2] - e0)

\* |y - t| <= c * 2^-Prec * |t|: y is t up to c units of rounding error
WithinRounding(y, t, c) ==
    IsNum(y) /\ LeScaled(AbsDiff(y, t), 1, TimesPow2(NumAbs(t), -Prec), c)

\* Vmax / 2, exactly
HalfOf(Vmax) == TimesPow2(Vmax, -1)

C5_ZeroAtZeroAlways ==
    (hill_pc = "done" /\ hill_x = Whole(0)) => hill_y = Whole(0)

\* C5: at x = 0 the value is 0 for every Vmax, every Kd # 0 and every
\* slope n > 0.
C5_ZeroAtZero ==
    (hill_pc = "done" /\ hill_x = Whole(0) /\ hill_Kd[1] # 0 /\ hill_n > 0)
        => hill_y = Whole(0)

\* C5 witness: a call at x = 0 with a non-zero asymptote returned 0.
C5_Witness ==
    /\ hill_pc = "done" /\ hill_x = Whole(0) /\ hill_Kd[1] # 0 /\ hill_n = 2
    /\ hill_Vmax = <<3, -1>> /\ hill_y = Whole(0)

\* |y - Vmax| <= |Vmax| * (1/k + c * 2^-Prec): y is within a k-th of Vmax
\* of Vmax, up to c units of rounding error
WithinOneKth(y, Vmax, k, c) ==
    /\ IsNum(y)
    /\ LeScaled(AbsDiff(y, Vmax), k, TimesPow2(NumAbs(Vmax), -Prec), Pow2(Prec) + c * k)

\* x is positive and at least (k + 1) |Kd|
FarBeyondMidpoint(x, Kd, k) ==
    x[1] > 0 /\ LeScaled(NumAbs(Kd), k + 1, x, 1)

base_filename == "20250226" \o " - " \o "769_"

\* line 36 and line 42: the name without and with a version
xlsx_name(base, version, extension) ==
    IF version = 1 THEN base \o "." \o extension
    ELSE base \o "_v" \o ToString(version) \o "." \o extension

\* lines 40-43: the while loop, from the version reached
RECURSIVE unique_filename_loop(_, _, _, _, _)
unique_filename_loop(existing, path, base, extension, version) ==
    IF os_path_join(path, xlsx_name(base, version, extension)) \in existing
    THEN unique_filename_loop(existing, path, base, extension, version + 1)
    ELSE os_path_join(path, xlsx_name(base, version, extension))

\* get_unique_filename with a slip: an if where the while is
get_unique_filename_checked_once(existing, path, base, extension) ==
    IF os_path_join(path, xlsx_name(base, 1, extension)) \in existing
    THEN os_path_join(path, xlsx_name(base, 2, extension))
    ELSE os_path_join(path, xlsx_name(base, 1, extension))

\* lines 31-45: get_unique_filename, given the files that exist
get_unique_filename(existing, path, base, extension) ==
    unique_filename_loop(existing, path, base, extension, 1)

\* the workbook names that may be there before the first run, base_v1.xlsx
\* (a name the script never uses) among them
XlsxNames ==
    {os_path_join(path_A("export"), base_filename \o ".xlsx")}
    \cup {os_path_join(path_A("export"), base_filename \o "_v" \o ToString(k) \o ".xlsx") :
             k \in 1..MaxVer}

ParkSave ==
    /\ files = {}
    /\ output_path = ""
    /\ save_pc = "parked"
    /\ written = <<>>
    /\ clobbered = {}

InitExportOwn ==
    /\ files \in SUBSET XlsxNames
    /\ output_path = ""
    /\ save_pc = "start"
    /\ written = <<>>
    /\ clobbered = {}

\* line 48: excel_output_path = get_unique_filename(path_A, base_filename, "xlsx")
ExportChooseName ==
    /\ save_pc = "start"
    /\ Len(written) < MaxRuns
    /\ output_path' = get_unique_filename(files, path_A("export"), base_filename, "xlsx")
    /\ save_pc' = "chosen"
    /\ UNCHANGED <<files, written, clobbered>>
    /\ UNCHANGED othersSave

\* line 107: df.to_excel(excel_output_path) creates or replaces the file
ExportToExcel ==
    /\ save_pc = "chosen"
    /\ files' = files \cup {output_path}
    /\ written' = Append(written, output_path)
    /\ clobbered' = clobbered \cup ({output_path} \cap files)
    /\ save_pc' = "start"
    /\ UNCHANGED output_path
    /\ UNCHANGED othersSave

\* between runs: some other workbook appears in the folder
ExportOtherFileAppears ==
    /\ save_pc = "start"
    /\ \E name \in XlsxNames \ files : files' = files \cup {name}
    /\ UNCHANGED <<output_path, save_pc, written, clobbered>>
    /\ UNCHANGED othersSave

\* the name of version k as the claim writes it
VersionedXlsx(k) ==
    IF k = 1 THEN path_A("export") \o "\\" \o "20250226 - 769_.xlsx"
    ELSE path_A("export") \o "\\" \o "20250226 - 769__v" \o ToString(k) \o ".xlsx"

\* C7: the name get_unique_filename returns does not exist when it returns:
\* it is base.xlsx if that does not exist, else base_v<k>.xlsx for the
\* smallest k >= 2 that does not exist; no run writes over a file, and the
\* files the runs write are distinct.
C7_NeverOverwrites ==
    /\ save_pc = "chosen" =>
          /\ output_path \notin files
          /\ \E k \in 1..(Cardinality(files) + 1) :
                /\ output_path = VersionedXlsx(k)
                /\ \A j \in 1..(k - 1) : VersionedXlsx(j) \in files
    /\ clobbered = {}
    /\ \A a, b \in DOMAIN written : a # b => written[a] # written[b]
    /\ \A a \in DOMAIN written : written[a] \in files

\* C7 witness: three runs in a row wrote three versions, the first of them
\* beyond versions that were there before.
C7_Witness ==
    /\ Len(written) = 3
    /\ written[1] = VersionedXlsx(3)
    /\ VersionedXlsx(4) \in files /\ written[2] = VersionedXlsx(5)

(***************************************************************************)
(* Raw_Data_Plot.py: the SVG a run saves, lines 87-99.                     *)
(***************************************************************************)
\* line 95: os.path.join(path_A, file_stem_A)
plot_base_filename == os_path_join(path_A("plot"), file_stem("plot"))

\* lines 89-92: the while loop, from the version reached
RECURSIVE next_filename_loop(_, _, _)
next_filename_loop(existing, base, version) ==
    IF (base \o "_v" \o ToString(version) \o ".svg") \in existing
    THEN next_filename_loop(existing, base, version + 1)
    ELSE base \o "_v" \o ToString(version) \o ".svg"

\* lines 88-92: get_next_filename, given the files that exist
get_next_filename(existing, base) == next_filename_loop(existing, base, 1)

\* line 99: the name handed to plt.savefig, f"{filename}.svg"
savefig_name(filename) == filename \o ".svg"

\* the SVG names that may be there before the first run
SvgNames ==
    {plot_base_filename \o "_v" \o ToString(k) \o ".svg" : k \in 1..MaxVer}
    \cup {plot_base_filename \o "_v1.svg.svg"}

InitPlotOwn ==
    /\ files \in SUBSET SvgNames
    /\ output_path = ""
    /\ save_pc = "start"
    /\ written = <<>>
    /\ clobbered = {}

\* line 96: filename = get_next_filename(base_filename)
PlotChooseName ==
    /\ save_pc = "start"
    /\ Len(written) < MaxRuns
    /\ output_path' = get_next_filename(files, plot_base_filename)
    /\ save_pc' = "chosen"
    /\ UNCHANGED <<files, written, clobbered>>
    /\ UNCHANGED othersSave

\* line 99: plt.savefig(f"{filename}.svg", format="svg") creates or
\* replaces the file of that name
PlotSavefig ==
    /\ save_pc = "chosen"
    /\ files' = files \cup {savefig_name(output_path)}
    /\ written' = Append(written, savefig_name(output_path))
    /\ clobbered' = clobbered \cup ({savefig_name(output_path)} \cap files)
    /\ save_pc' = "start"
    /\ UNCHANGED output_path
    /\ UNCHANGED othersSave

\* between runs: some other SVG appears in the folder
PlotOtherFileAppears ==
    /\ save_pc = "start"
    /\ \E name \in SvgNames \ files : files' = files \cup {name}
    /\ UNCHANGED <<output_path, save_pc, written, clobbered>>
    /\ UNCHANGED othersSave

\* C8: the file a run saves is the file whose absence get_next_filename
\* checked, base_v<k>.svg for the smallest free k >= 1, so every run writes
\* a new file and none writes over the file of an earlier run.
C8_SavesUnderNextVersion ==
    /\ save_pc = "chosen" =>
          /\ output_path \notin files
          /\ \E k \in 1..(Cardinality(files) + 1) :
                /\ output_path = "FILESTEMLOCATION\\FILENAME_v" \o ToString(k) \o ".svg"
                /\ \A j \in 1..(k - 1) :
                      ("FILESTEMLOCATION\\FILENAME_v" \o ToString(j) \o ".svg") \in files
    /\ (save_pc = "start" /\ written # <<>>) => written[Len(written)] = output_path
    /\ clobbered = {}
    /\ \A a, b \in DOMAIN written : a # b => written[a] # written[b]

\* what the code does: the name chosen is free, and the file saved is that
\* name with a second ".svg"
PlotSavesDoubleSuffix ==
    /\ save_pc = "chosen" => output_path \notin files
    /\ (save_pc = "start" /\ written # <<>>)
          => written[Len(written)] = output_path \o ".svg"

\* what the code does: a second run writes over the file of the first
\* unless a file of the name the first run checked has appeared
PlotOverwrites ==
    \A a, b \in DOMAIN written :
        (a < b /\ written[a] # written[b])
            => \E name \in files \ {written[c] : c \in DOMAIN written} :
                   written[a] = name \o ".svg"

(***************************************************************************)
(* Raw_Data_Histogram_Plot.py: the threshold filter of plot_histogram,     *)
(* lines 70-74, and the data that reaches plt.hist, lines 86-93.           *)
(***************************************************************************)
None == <<>>

\* arr[mask]: the elements of arr where the boolean array mask is True
RECURSIVE boolean_index(_, _)
boolean_index(arr, mask) ==
    IF arr = <<>> THEN <<>>
    ELSE (IF Head(mask) THEN <<Head(arr)>> ELSE <<>>)
         \o boolean_index(Tail(arr), Tail(mask))

\* filter_bottom with a slip: the bound itself dropped
filter_bottom_strict(data, bottom) ==
    IF bottom # None
    THEN boolean_index(data, [i \in DOMAIN data |-> data[i] > bottom[1]])
    ELSE data

\* lines 71-72: data = data[data >= bottom_threshold]
filter_bottom(data, bottom) ==
    IF bottom # None
    THEN boolean_index(data, [i \in DOMAIN data |-> data[i] >= bottom[1]])
    ELSE data

\* lines 73-74: data = data[data <= top_threshold]
filter_top(data, top) ==
    IF top # None
    THEN boolean_index(data, [i \in DOMAIN data |-> data[i] <= top[1]])
    ELSE data

HistValues == 0..3
HistThresholds == {None} \cup {<<v>> : v \in HistValues}

ParkHist ==
    /\ hist_data = <<>>
    /\ bottom_threshold = None
    /\ top_threshold = None
    /\ hist_plotted = <<>>
    /\ hist_pc = "parked"

InitHistOwn ==
    /\ hist_data \in SeqUpTo(HistValues, MaxLen + 1)
    /\ bottom_threshold \in HistThresholds
    /\ top_threshold \in HistThresholds
    /\ hist_plotted = <<>>
    /\ hist_pc = "call"

\* plot_histogram up to plt.hist: both filters, then the data is plotted
PlotHistogram ==
    /\ hist_pc = "call"
    /\ hist_plotted' = filter_top(filter_bottom(hist_data, bottom_threshold), top_threshold)
    /\ hist_pc' = "done"
    /\ UNCHANGED <<hist_data, bottom_threshold, top_threshold>>
    /\ UNCHANGED othersHist

\* v passes the bounds, a bound of None letting everything pass
InBounds(v) ==
    /\ bottom_threshold = None \/ bottom_threshold[1] <= v
    /\ top_threshold = None \/ v <= top_threshold[1]

\* C9: the data that reaches the histogram is the sub-sequence of the input
\* with bottom_threshold <= v <= top_threshold, order and multiplicity kept;
\* a bound of None removes nothing, and with both None the data is unchanged.
C9_HistogramDataInBounds ==
    hist_pc = "done" =>
        /\ hist_plotted = SelectSeq(hist_data, InBounds)
        /\ (bottom_threshold = None /\ top_threshold = None) => hist_plotted = hist_data
        /\ bottom_threshold = None =>
              hist_plotted = SelectSeq(hist_data, LAMBDA v : top_threshold = None \/ v <= top_threshold[1])
        /\ top_threshold = None =>
              hist_plotted = SelectSeq(hist_data, LAMBDA v : bottom_threshold = None \/ bottom_threshold[1] <= v)

\* C9 witness: values on both bounds were kept in their order, twice where
\* they came twice, and values outside were dropped.
C9_Witness ==
    /\ hist_pc = "done"
    /\ bottom_threshold = <<1>> /\ top_threshold = <<2>>
    /\ hist_data = <<2, 0, 1>>
    /\ hist_plotted = <<2, 1>>

(***************************************************************************)
(* Raw_Data_Plot_Hill_Fit.py: the positivity filter, lines 26-44.          *)
(* A pandas Series is the sequence of its entries <<index label, value>>;  *)
(* read_excel labels the rows 0, 1, 2, ...                                 *)
(***************************************************************************)
\* lines 27-29: df['Conc'], df['Mean'], df['SD'] (columns 1, 2, 3)
df_column(df, c) == [i \in DOMAIN df |-> <<i - 1, df[i][c]>>]

\* valid_indices with a slip: x >= 0
valid_indices_nonnegative(x) == [i \in DOMAIN x |-> <<x[i][1], x[i][2] >= 0>>]

\* line 35: valid_indices = x > 0, a boolean Series with the index of x
valid_indices(x) == [i \in DOMAIN x |-> <<x[i][1], x[i][2] > 0>>]

\* the value a boolean Series holds at a label
mask_at(mask, label) ==
    LET i == CHOOSE j \in DOMAIN mask : mask[j][1] = label IN mask[i][2]

\* lines 36-38: series[mask], the entries whose label the mask holds True
RECURSIVE series_getitem(_, _)
series_getitem(series, mask) ==
    IF series = <<>> THEN <<>>
    ELSE (IF mask_at(mask, Head(series)[1]) THEN <<Head(series)>> ELSE <<>>)
         \o series_getitem(Tail(series), mask)

\* min over the values of a Series that is not empty
RECURSIVE series_min(_)
series_min(series) ==
    IF Len(series) = 1 THEN series[1][2]
    ELSE LET m == series_min(Tail(series))
         IN IF series[1][2] < m THEN series[1][2] ELSE m

ConcValues == {-1, 0, 1, 2}
MeanValues == {5, 6}
SDValues == {7, 8}

ParkFit ==
    /\ fit_df = <<>>
    /\ fit_x = <<>>
    /\ fit_y = <<>>
    /\ fit_y_sd = <<>>
    /\ fit_min = 0
    /\ fit_pc = "parked"

\* lines 24-29
InitFitOwn ==
    /\ fit_df \in SeqUpTo(ConcValues \X MeanValues \X SDValues, MaxRows)
    /\ fit_x = df_column(fit_df, 1)
    /\ fit_y = df_column(fit_df, 2)
    /\ fit_y_sd = df_column(fit_df, 3)
    /\ fit_min = 0
    /\ fit_pc = "read"

\* lines 35-38: the mask is taken from x as read, then applied to all three
FitFilter ==
    /\ fit_pc = "read"
    /\ fit_x' = series_getitem(fit_x, valid_indices(fit_x))
    /\ fit_y' = series_getitem(fit_y, valid_indices(fit_x))
    /\ fit_y_sd' = series_getitem(fit_y_sd, valid_indices(fit_x))
    /\ fit_pc' = "filtered"
    /\ UNCHANGED <<fit_df, fit_min>>
    /\ UNCHANGED othersFit

\* line 44: min(x) of the rows retained
FitMin ==
    /\ fit_pc = "filtered"
    /\ fit_x # <<>>
    /\ fit_min' = series_min(fit_x)
    /\ fit_pc' = "printed"
    /\ UNCHANGED <<fit_df, fit_x, fit_y, fit_y_sd>>
    /\ UNCHANGED othersFit

\* line 44: min() of an empty Series raises ValueError
FitMinRaise ==
    /\ fit_pc = "filtered"
    /\ fit_x = <<>>
    /\ fit_pc' = "raised"
    /\ UNCHANGED <<fit_df, fit_x, fit_y, fit_y_sd, fit_min>>
    /\ UNCHANGED othersFit

\* the values of a Series, without the labels
series_values(series) == [i \in DOMAIN series |-> series[i][2]]

\* the Conc column of the spreadsheet
ConcColumn == [i \in DOMAIN fit_df |-> fit_df[i][1]]

\* C10: after the filter x holds exactly the Conc values > 0, in order; y
\* and y_sd hold at every position the Mean and SD of the row x[i] came
\* from; the three have the same length; and min(x) > 0 when a row is left.
C10_FilterKeepsColumnsAligned ==
    fit_pc \in {"filtered", "printed", "raised"} =>
        /\ series_values(fit_x) = SelectSeq(ConcColumn, LAMBDA v : v > 0)
        /\ Len(fit_x) = Len(fit_y) /\ Len(fit_y) = Len(fit_y_sd)
        /\ \A i \in DOMAIN fit_x :
              /\ fit_y[i][1] = fit_x[i][1] /\ fit_y_sd[i][1] = fit_x[i][1]
              /\ fit_x[i][2] = fit_df[fit_x[i][1] + 1][1]
              /\ fit_y[i][2] = fit_df[fit_x[i][1] + 1][2]
              /\ fit_y_sd[i][2] = fit_df[fit_x[i][1] + 1][3]
              /\ fit_x[i][2] > 0
        /\ \A r \in DOMAIN fit_df :
              fit_df[r][1] <= 0 => \A i \in DOMAIN fit_x :
                  fit_x[i][1] # r - 1 /\ fit_y[i][1] # r - 1 /\ fit_y_sd[i][1] # r - 1
        /\ fit_pc = "printed" => fit_min > 0
        /\ fit_pc = "raised" => fit_x = <<>>

\* C10 witness: of three rows the middle one, with Conc = 0, was dropped,
\* and the Mean and SD left are those of the first and third rows.
C10_Witness ==
    /\ fit_pc = "printed"
    /\ fit_df = <<<<2, 5, 8>>, <<0, 6, 7>>, <<1, 6, 8>>>>
    /\ fit_x = <<<<0, 2>>, <<2, 1>>>>
    /\ fit_y = <<<<0, 5>>, <<2, 6>>>>
    /\ fit_y_sd = <<<<0, 8>>, <<2, 8>>>>
    /\ fit_min = 1

(***************************************************************************)
(* Raw_Data_Threshold_xlsx_Export.py: the table, lines 80-104.  Every run  *)
(* (file stem) is loaded and counted at every threshold, then the columns  *)
(* are put together.  What the script prints is not part of the table and  *)
(* is left out here.                                                       *)
(***************************************************************************)
\* line 20
exptitle == "769_"

\* line 81, with the stems numbered from 0: range(expnum) for range(1, expnum + 1)
file_stems_from_zero(n) == [i \in 1..n |-> exptitle \o Pad2(i - 1)]

\* line 81: [f"{exptitle}{i:02d}" for i in range(1, expnum + 1)]
file_stems(n) == [i \in 1..n |-> exptitle \o Pad2(i)]

\* line 58: the name of the i-th file of the run with the given stem
stem_filename(stem, i) ==
    os_path_join(path_A("export"), IF i > 0 THEN stem \o "_" \o Pad2(i + 1) ELSE stem)

\* what a data file of a run may hold: rows of (channel A, channel B)
RunFileContents == {<<<<21, 7>>>>, <<<<201, 3>>, <<20, 4>>>>}

\* the names the runs may look for
RunNames(e, n) == {stem_filename(file_stems(e)[j], i) : j \in 1..e, i \in 0..(n - 1)}

\* lines 54-68: channelA_data after the first n passes of the loop over i;
\* a missing file is passed over (lines 60-62)
RECURSIVE load_files_loop(_, _, _)
load_files_loop(stem, d, n) ==
    IF n = 0 THEN <<>>
    ELSE IF stem_filename(stem, n - 1) \notin DOMAIN d
         THEN load_files_loop(stem, d, n - 1)
         ELSE load_files_loop(stem, d, n - 1) \o column(d[stem_filename(stem, n - 1)], 1)

\* lines 50-72: channelA_arr as load_files returns it
load_files(stem, d, n) == np_asarray_float32(load_files_loop(stem, d, n))

\* the keys of events_dict
ThresholdKeys == {thresholds[k] : k \in DOMAIN thresholds}

\* line 84
events_dict_empty == [t \in ThresholdKeys |-> <<>>]

\* lines 88-90: events_dict after the first k passes of the loop over thresholds
RECURSIVE count_thresholds(_, _, _)
count_thresholds(dict, arr, k) ==
    IF k = 0 THEN dict
    ELSE [count_thresholds(dict, arr, k - 1) EXCEPT
             ![thresholds[k]] = Append(@, count_events_above_threshold(arr, thresholds[k]))]

\* line 102: the title of a threshold's column
events_column(t) == "Events above " \o ToString(t)

BlankColumns == {"Contents", "Conc", "Incub", "Flow"}
EventsColumns == {events_column(t) : t \in ThresholdKeys}
ColumnNames == {"Datafile"} \cup BlankColumns \cup EventsColumns

\* lines 94-102: the dict data
table_data(e, dict) ==
    [c \in ColumnNames |->
        IF c = "Datafile" THEN [i \in 1..e |-> Pad2(i)]
        ELSE IF c \in BlankColumns THEN [i \in 1..e |-> ""]
        ELSE dict[CHOOSE t \in ThresholdKeys : events_column(t) = c]]

\* line 104: pd.DataFrame takes columns of one length only (ValueError otherwise)
same_length(d) == \A c1, c2 \in DOMAIN d : Len(d[c1]) = Len(d[c2])

\* line 104: the rows of the frame
DataFrame(d) ==
    [r \in 1..Len(d["Datafile"]) |-> [c \in DOMAIN d |-> d[c][r]]]

ParkTable ==
    /\ expnum = 0
    /\ run_number_of_files = 0
    /\ run_disk = <<>>
    /\ file_stem_idx = 0
    /\ run_channelA_arr = <<>>
    /\ events_dict = <<>>
    /\ export_data = <<>>
    /\ export_df = <<>>
    /\ table_pc = "parked"

\* lines 20-25 and 80-84: the settings, the files there are, the empty dict
InitTableOwn ==
    /\ expnum \in 1..MaxExp
    /\ run_number_of_files \in 1..MaxRunFiles
    /\ run_disk \in UNION {[S -> RunFileContents] :
                              S \in SUBSET RunNames(expnum, run_number_of_files)}
    /\ file_stem_idx = 1
    /\ run_channelA_arr = <<>>
    /\ events_dict = events_dict_empty
    /\ export_data = <<>>
    /\ export_df = <<>>
    /\ table_pc = "loop"

\* lines 86-91: one pass of the outer loop: load the run, count it at every
\* threshold
TableRun ==
    /\ table_pc = "loop"
    /\ file_stem_idx <= Len(file_stems(expnum))
    /\ run_channelA_arr' = load_files(file_stems(expnum)[file_stem_idx], run_disk,
                                      run_number_of_files)
    /\ events_dict' = count_thresholds(events_dict, run_channelA_arr', Len(thresholds))
    /\ file_stem_idx' = file_stem_idx + 1
    /\ UNCHANGED <<expnum, run_number_of_files, run_disk, export_data, export_df,
                   table_pc>>
    /\ UNCHANGED othersTable

\* lines 93-104: after the loop, put the columns together and build the frame
TableDataFrame ==
    /\ table_pc = "loop"
    /\ file_stem_idx > Len(file_stems(expnum))
    /\ export_data' = table_data(expnum, events_dict)
    /\ IF same_length(export_data')
       THEN export_df' = DataFrame(export_data') /\ table_pc' = "framed"
       ELSE export_df' = <<>> /\ table_pc' = "raised"
    /\ UNCHANGED <<expnum, run_number_of_files, run_disk, file_stem_idx,
                   run_channelA_arr, events_dict>>
    /\ UNCHANGED othersTable

\* the rows of column A in the files of run j that exist, each with its
\* file, its place in the file and its value as a float32
RunRows(j) ==
    UNION {{<<i, k, float32(run_disk[stem_filename(exptitle \o Pad2(j), i)][k][1])>> :
                k \in DOMAIN run_disk[stem_filename(exptitle \o Pad2(j), i)]} :
           i \in {i \in 0..(run_number_of_files - 1) :
                     stem_filename(exptitle \o Pad2(j), i) \in DOMAIN run_disk}}

\* how many of the rows are above t
RowsAbove(rows, t) == Cardinality({r \in rows : r[3] > t})

\* no file of run j exists
RunMissing(j) ==
    \A i \in 0..(run_number_of_files - 1) :
        stem_filename(exptitle \o Pad2(j), i) \notin DOMAIN run_disk

\* the outer loop has finished
LoopFinished == table_pc \in {"loop", "framed", "raised"} /\ file_stem_idx = expnum + 1

\* C11: once the counting loop has finished, every list of events_dict has
\* exactly expnum entries, the j-th being the count of the run 'Datafile' j
\* whatever files exist, and 0 for a run with no file at all; so the frame
\* is built, every column of it has expnum rows, and on row j the counts
\* are those of the run the 'Datafile' column names.
C11_TableRowsLineUp ==
    /\ table_pc = "loop" =>
          \A t \in ThresholdKeys : Len(events_dict[t]) = file_stem_idx - 1
    /\ LoopFinished =>
          /\ \A t \in ThresholdKeys : Len(events_dict[t]) = expnum
          /\ \A j \in 1..expnum :
                LET rows == RunRows(j)
                    missing == RunMissing(j)
                IN  \A t \in ThresholdKeys :
                        /\ events_dict[t][j] = RowsAbove(rows, t)
                        /\ missing => events_dict[t][j] = 0
    /\ table_pc # "raised"
    /\ table_pc = "framed" =>
          /\ Len(export_df) = expnum
          /\ \A c \in ColumnNames : Len(export_data[c]) = expnum
          /\ \A r \in 1..expnum :
                LET rows == RunRows(r)
                IN  /\ export_df[r]["Datafile"] = Pad2(r)
                    /\ \A t \in ThresholdKeys :
                          export_df[r][events_column(t)] = RowsAbove(rows, t)

\* C11 witness: of two runs the first has no file and the second has one;
\* the table has a row of zeros for the first and the counts of the second
\* on the second row.
C11_Witness ==
    /\ table_pc = "framed"
    /\ expnum = 2
    /\ RunMissing(1)
    /\ ~RunMissing(2)
    /\ events_dict[20] = <<0, 1>>
    /\ export_df[1]["Datafile"] = "01" /\ export_df[1][events_column(200)] = 0
    /\ export_df[2]["Datafile"] = "02" /\ export_df[2][events_column(200)] = 1

(***************************************************************************)
(* Specifications.                                                         *)
(***************************************************************************)
InitCount ==
    InitCountOwn /\ ParkLoad /\ ParkHill /\ ParkSave /\ ParkHist /\ ParkFit /\ ParkTable
NextCount == CountStep
SpecCount == InitCount /\ [][NextCount]_vars

InitLoad ==
    InitLoadOwn /\ ParkCount /\ ParkHill /\ ParkSave /\ ParkHist /\ ParkFit /\ ParkTable
NextLoad ==
    \/ LoadFilesSkip
    \/ LoadFilesRead
    \/ LoadFilesARead
    \/ LoadFilesARaise
    \/ LoadReturn
SpecLoad == InitLoad /\ [][NextLoad]_vars

InitHill ==
    InitHillOwn /\ ParkCount /\ ParkLoad /\ ParkSave /\ ParkHist /\ ParkFit /\ ParkTable
NextHill == HillCall
SpecHill == InitHill /\ [][NextHill]_vars

InitExport ==
    InitExportOwn /\ ParkCount /\ ParkLoad /\ ParkHill /\ ParkHist /\ ParkFit /\ ParkTable
NextExport ==
    \/ ExportChooseName
    \/ ExportToExcel
    \/ ExportOtherFileAppears
SpecExport == InitExport /\ [][NextExport]_vars

InitPlot ==
    InitPlotOwn /\ ParkCount /\ ParkLoad /\ ParkHill /\ ParkHist /\ ParkFit /\ ParkTable
NextPlot ==
    \/ PlotChooseName
    \/ PlotSavefig
    \/ PlotOtherFileAppears
SpecPlot == InitPlot /\ [][NextPlot]_vars

InitHist ==
    InitHistOwn /\ ParkCount /\ ParkLoad /\ ParkHill /\ ParkSave /\ ParkFit /\ ParkTable
NextHist == PlotHistogram
SpecHist == InitHist /\ [][NextHist]_vars

InitFit ==
    InitFitOwn /\ ParkCount /\ ParkLoad /\ ParkHill /\ ParkSave /\ ParkHist /\ ParkTable
NextFit ==
    \/ FitFilter
    \/ FitMin
    \/ FitMinRaise
SpecFit == InitFit /\ [][NextFit]_vars

InitTable ==
    InitTableOwn /\ ParkCount /\ ParkLoad /\ ParkHill /\ ParkSave /\ ParkHist /\ ParkFit
NextTable ==
    \/ TableRun
    \/ TableDataFrame
SpecTable == InitTable /\ [][NextTable]_vars

\* the scripts are independent programs: any one of them runs
Init ==
    \/ InitCount \/ InitLoad \/ InitHill \/ InitExport
    \/ InitPlot \/ InitHist \/ InitFit \/ InitTable
Next ==
    \/ NextCount \/ NextLoad \/ NextHill \/ NextExport
    \/ NextPlot \/ NextHist \/ NextFit \/ NextTable
Spec == Init /\ [][Next]_vars

====
